---------------------------- MODULE Spec2Model ----------------------------
(***************************************************************************)
(* ClearView Reader: the article retrieval service (fetchArticleContent,   *)
(* askQuestionAboutArticle in services/geminiService.ts), the App          *)
(* component that drives it (handleRead, handleBack, saveToHistory,        *)
(* deleteHistoryItem) and the ArticleView handlers (handleAsk,             *)
(* handleSaveToSheet, handleCopy, handleExportPDF, ...).                   *)
(*                                                                         *)
(* Text is modelled character by character: a string is a sequence of      *)
(* one-character strings, so that the regular expressions of the parser    *)
(* are evaluated as the engine evaluates them.                             *)
(***************************************************************************)
EXTENDS Integers, Sequences, FiniteSets, TLC

VARIABLES
    appState,     \* App: useState<AppState>
    articleData,  \* App: useState<ArticleData | null>
    errorMsg,     \* App: useState('')
    history,      \* App: useState<ReadingHistoryItem[]>
    inv,          \* the handleRead / fetchArticleContent invocations started so far
    isAsking,     \* ArticleView: useState(false)
    answer,       \* ArticleView: useState('')
    ask,          \* the askQuestionAboutArticle call of the mounted view
    view,         \* ArticleView: isSaving, saveSuccess, copied, isExporting and its effects
    sheet,        \* the Google sheet service: its module state and its call in progress
    doc,          \* document.title and the pending timers that restore it
    last,         \* what the fetch that settled most recently did
    pIn,          \* function harness: the input under test (response text and url; article text and question)
    pOut          \* function harness: what the code built from pIn (the record; the prompt)

vars == <<appState, articleData, errorMsg, history, inv, last, isAsking, answer, ask, view,
          sheet, doc, pIn, pOut>>

appVars == <<appState, articleData, errorMsg, history, inv, last, isAsking, answer, ask, view,
             sheet, doc>>

parseVars == <<pIn, pOut>>

envVars == <<sheet, doc>>

\* null, where the code holds an object or null
NULL == [none |-> TRUE]

\* a metadata line that is not in the block
Absent == <<"absent">>

-----------------------------------------------------------------------------
(* Bounds of the model *)

\* invocations of handleRead in one run
MaxInv == 2

\* saveToHistory calls in one run of the history harness
MaxSaves == 3

\* the longest of the short article texts of the prompt harness
MaxShort == 60

\* how far the long article texts of the prompt harness are from the limit
MaxAround == 3

\* atoms concatenated into one metadata value of a response
MaxValAtoms == 2

\* lines of a response body
MaxBodyLines == 2

-----------------------------------------------------------------------------
(* Characters and strings *)

Min(S) == CHOOSE x \in S : \A y \in S : x <= y

UpperLetters == <<"A","B","C","D","E","F","G","H","I","J","K","L","M",
                  "N","O","P","Q","R","S","T","U","V","W","X","Y","Z">>

LowerLetters == <<"a","b","c","d","e","f","g","h","i","j","k","l","m",
                  "n","o","p","q","r","s","t","u","v","w","x","y","z">>

\* String.prototype.toLowerCase on one character
UpperSet == {UpperLetters[i] : i \in 1..26}

LowerOf == [c \in UpperSet |-> LowerLetters[CHOOSE i \in 1..26 : UpperLetters[i] = c]]

LowerChar(c) == IF c \in UpperSet THEN LowerOf[c] ELSE c

toLowerCase(s) == [i \in 1..Len(s) |-> LowerChar(s[i])]

\* the class \s of a regular expression
IsSpace(c) == c \in {" ", "\n", "\t", "\r"}

\* what "." does not match and what "^" and "$" under the m flag stop at
IsLineTerminator(c) == c \in {"\n", "\r"}

\* pat occurs in s at index i
StartsAt(s, pat, i) ==
    /\ i >= 1
    /\ i + Len(pat) - 1 <= Len(s)
    /\ \A k \in 1..Len(pat) : s[i + k - 1] = pat[k]

\* the first index >= from at which pat occurs in s, 0 when there is none
IndexFrom(s, pat, from) ==
    LET hits == {i \in from..(Len(s) - Len(pat) + 1) : StartsAt(s, pat, i)}
    IN  IF hits = {} THEN 0 ELSE Min(hits)

\* String.prototype.includes
includes(s, pat) == IndexFrom(s, pat, 1) # 0

\* String.prototype.trim
trim(s) ==
    LET n  == Len(s)
        ns == {i \in 1..n : ~IsSpace(s[i])}
        sn == {i \in 1..n : ~IsSpace(s[n + 1 - i])}
    IN  IF ns = {} THEN <<>> ELSE SubSeq(s, Min(ns), n + 1 - Min(sn))

\* "^" under the m flag matches at index p
LineStart(s, p) == p = 1 \/ IsLineTerminator(s[p - 1])

\* where a greedy \s* (or \s+) that starts at index q stops
SkipSpaces(s, q) ==
    LET ns == {i \in q..Len(s) : ~IsSpace(s[i])}
    IN  IF ns = {} THEN Len(s) + 1 ELSE Min(ns)

\* what a greedy (.*) that starts at index q captures: up to the line's end
RestOfLine(s, q) ==
    LET ts == {i \in q..Len(s) : IsLineTerminator(s[i])}
    IN  IF ts = {} THEN SubSeq(s, q, Len(s)) ELSE SubSeq(s, q, Min(ts) - 1)

Dash3 == <<"-", "-", "-">>

Colon == <<":">>

Quotes == {"\"", "'"}

-----------------------------------------------------------------------------
(* The parsing code of fetchArticleContent *)

\* the block regex with a greedy interior, /---([\s\S]*)---([\s\S]*)/: the
\* interior runs to the last "---" of the text
frontmatterMatch_Greedy(responseText) ==
    LET i  == IndexFrom(responseText, Dash3, 1)
        js == {j \in (i + 3)..Len(responseText) : StartsAt(responseText, Dash3, j)}
        j  == CHOOSE x \in js : \A y \in js : y <= x
    IN  IF i = 0 \/ js = {}
        THEN [found |-> FALSE, meta |-> <<>>, rest |-> <<>>]
        ELSE [found |-> TRUE,
              meta  |-> SubSeq(responseText, i + 3, j - 1),
              rest  |-> SubSeq(responseText, j + 3, Len(responseText))]

\* responseText.match(/---([\s\S]*?)---([\s\S]*)/): the leftmost "---", a lazy
\* interior up to the next "---", and the greedy remainder.
frontmatterMatch(responseText) ==
    LET i == IndexFrom(responseText, Dash3, 1)
        j == IF i = 0 THEN 0 ELSE IndexFrom(responseText, Dash3, i + 3)
    IN  IF j = 0
        THEN [found |-> FALSE, meta |-> <<>>, rest |-> <<>>]
        ELSE [found |-> TRUE,
              meta  |-> SubSeq(responseText, i + 3, j - 1),
              rest  |-> SubSeq(responseText, j + 3, Len(responseText))]

\* getMeta: new RegExp(`^${key}:\\s*(.*)$`, 'mi') on the metadata string; the
\* result is match[1].trim(), or null (found = FALSE) without a match.
getMeta(metadataStr, key) ==
    LET pat  == toLowerCase(key \o Colon)
        low  == toLowerCase(metadataStr)
        hits == {p \in 1..Len(metadataStr) :
                    LineStart(metadataStr, p) /\ StartsAt(low, pat, p)}
    IN  IF hits = {}
        THEN [found |-> FALSE, value |-> <<>>]
        ELSE LET p == Min(hits)
                 q == SkipSpaces(metadataStr, p + Len(pat))
             IN  [found |-> TRUE, value |-> trim(RestOfLine(metadataStr, q))]

\* (getMeta(key) || dflt): null and the empty string are both falsy
OrDefault(m, dflt) == IF m.found /\ m.value # <<>> THEN m.value ELSE dflt

\* .replace(/^"|"$/g, ''): only double quotes are removed
StripQuotes_DoubleOnly(v) ==
    LET a == IF Len(v) >= 1 /\ v[1] = "\"" THEN 2 ELSE 1
        b == IF Len(v) >= 2 /\ v[Len(v)] = "\"" THEN Len(v) - 1 ELSE Len(v)
    IN  SubSeq(v, a, b)

\* .replace(/^["']|["']$/g, ''): a quote at the start is removed, and a quote
\* at the end is removed, each on its own
StripQuotes(v) ==
    LET a == IF Len(v) >= 1 /\ v[1] \in Quotes THEN 2 ELSE 1
        b == IF Len(v) >= 2 /\ v[Len(v)] \in Quotes THEN Len(v) - 1 ELSE Len(v)
    IN  SubSeq(v, a, b)

ArticleViewPlaceholder == <<"a","r","t","i","c","l","e"," ","v","i","e","w">>

\* the threshold of "title.length < 5"
MinTitleLength == 5

\* the condition of the "Robust Title Fallback"
TitleNeedsFallback(title) ==
    \/ title = <<>>
    \/ includes(toLowerCase(title), ArticleViewPlaceholder)
    \/ Len(title) < MinTitleLength

\* content.match(/^#\s+(.*)$/m)
h1Match(content) ==
    LET hits == {p \in 1..Len(content) :
                    /\ LineStart(content, p)
                    /\ content[p] = "#"
                    /\ p + 1 <= Len(content)
                    /\ IsSpace(content[p + 1])}
    IN  IF hits = {}
        THEN [found |-> FALSE, value |-> <<>>]
        ELSE [found |-> TRUE,
              value |-> RestOfLine(content, SkipSpaces(content, Min(hits) + 1))]

SchemeSep == <<":", "/", "/">>

\* new URL(url): the text before "://" must be http or https here, the host
\* runs to the first "/", "?" or "#", and an empty host or a host with a space
\* makes the constructor throw; hostname is lower-cased.
ParseURL(url) ==
    LET k      == IndexFrom(url, SchemeSep, 1)
        scheme == IF k = 0 THEN <<>> ELSE toLowerCase(SubSeq(url, 1, k - 1))
        from   == k + 3
        ends   == {i \in from..Len(url) : url[i] \in {"/", "?", "#"}}
        host   == IF ends = {} THEN SubSeq(url, from, Len(url))
                  ELSE SubSeq(url, from, Min(ends) - 1)
    IN  IF \/ k = 0
           \/ scheme \notin {<<"h","t","t","p">>, <<"h","t","t","p","s">>}
           \/ host = <<>>
           \/ \E i \in 1..Len(host) : IsSpace(host[i])
        THEN [ok |-> FALSE, hostname |-> <<>>]
        ELSE [ok |-> TRUE, hostname |-> toLowerCase(host)]

WwwDot == <<"w", "w", "w", ".">>

\* hostname.replace('www.', ''): the first occurrence, wherever it is
StripWww(hostname) ==
    LET i == IndexFrom(hostname, WwwDot, 1)
    IN  IF i = 0 THEN hostname
        ELSE SubSeq(hostname, 1, i - 1) \o SubSeq(hostname, i + 4, Len(hostname))

ReportFrom == <<"R","e","p","o","r","t"," ","f","r","o","m"," ">>

ExtractedArticle == <<"E","x","t","r","a","c","t","e","d"," ","A","r","t","i","c","l","e">>

Unknown == <<"U","n","k","n","o","w","n">>

Web == <<"W","e","b">>

\* a url fallback without its try/catch: the hostname is used unchecked
UrlTitle_NoCatch(url) == ReportFrom \o StripWww(ParseURL(url).hostname)

\* the try/catch around new URL(url)
UrlTitle(url) ==
    LET u == ParseURL(url)
    IN  IF u.ok THEN ReportFrom \o StripWww(u.hostname) ELSE ExtractedArticle

\* the title after the fallback chain, before the final cleanup
FallbackTitle(title, content, url) ==
    IF TitleNeedsFallback(title)
    THEN LET h == h1Match(content)
         IN  IF h.found THEN trim(h.value) ELSE UrlTitle(url)
    ELSE title

\* title.replace(/[*_#]/g, '').trim()
SanitizeTitle(title) ==
    trim(SelectSeq(title, LAMBDA c : c \notin {"*", "_", "#"}))

KeyTitle == <<"t","i","t","l","e">>

KeyAuthor == <<"a","u","t","h","o","r">>

KeySiteName == <<"s","i","t","e","N","a","m","e">>

\* the title, author and siteName taken from the block, before the fallback
BlockTitle(fm) ==
    IF fm.found THEN StripQuotes(OrDefault(getMeta(fm.meta, KeyTitle), <<>>))
    ELSE <<>>

BlockAuthor(fm) ==
    IF fm.found
    THEN StripQuotes(OrDefault(getMeta(fm.meta, KeyAuthor), Unknown))
    ELSE Unknown

BlockSiteName(fm) ==
    IF fm.found
    THEN StripQuotes(OrDefault(getMeta(fm.meta, KeySiteName), Web))
    ELSE Web

BlockContent(fm, responseText) == IF fm.found THEN trim(fm.rest) ELSE responseText

\* a sources list that drops an entry whose uri was already taken
ExtractSources_Deduped(chunks) ==
    LET first == {i \in 1..Len(chunks) :
                    chunks[i].hasWeb /\ \A j \in 1..(i - 1) : chunks[j] # chunks[i]}
        kept  == SelectSeq([i \in 1..Len(chunks) |-> [c |-> chunks[i], keep |-> i \in first]],
                           LAMBDA x : x.keep)
    IN  [i \in 1..Len(kept) |-> [title |-> kept[i].c.title, uri |-> kept[i].c.uri]]

\* groundingChunks.map(chunk => chunk.web ? {title, uri} : null).filter(non-null)
ExtractSources(chunks) ==
    LET kept == SelectSeq(chunks, LAMBDA c : c.hasWeb)
    IN  [i \in 1..Len(kept) |-> [title |-> kept[i].title, uri |-> kept[i].uri]]

\* the record fetchArticleContent returns for a non-empty response text
ParseArticle(responseText, url, chunks) ==
    LET fm      == frontmatterMatch(responseText)
        content == BlockContent(fm, responseText)
    IN  [title    |-> SanitizeTitle(FallbackTitle(BlockTitle(fm), content, url)),
         content  |-> content,
         author   |-> BlockAuthor(fm),
         siteName |-> BlockSiteName(fm),
         url      |-> url,
         sources  |-> ExtractSources(chunks)]

-----------------------------------------------------------------------------
(* The response texts and urls the parsing code is run on *)

Foo == <<"F","o","o">>

Bar == <<"B","a","r">>

Baz == <<"B","a","z">>

Hello == <<"H","e","l","l","o">>

Stars3 == <<"*","*","*">>

DQ == <<"\"">>

SQ == <<"'">>

ArticleViewCaps == <<"A","r","t","i","c","l","e"," ","V","i","e","w">>

BodyTextHere == <<"B","o","d","y"," ","t","e","x","t"," ","h","e","r","e">>

MyHeadingLine == <<"#"," ","M","y"," ","H","e","a","d","i","n","g">>

MyHeading == <<"M","y"," ","H","e","a","d","i","n","g">>

SomeBody == <<"S","o","m","e"," ","b","o","d","y">>

HashHashLine == <<"#"," ","#">>

SubHeadingLine == <<"#","#"," ","S","u","b">>

NL == <<"\n">>

UrlArticle == <<"h","t","t","p","s",":","/","/","e","x","a","m","p","l","e",".","c","o","m",
                "/","s","o","m","e","-","c","o","o","l","-","a","r","t","i","c","l","e">>

UrlWww == <<"h","t","t","p","s",":","/","/","w","w","w",".","e","x","a","m","p","l","e",".","c","o","m">>

UrlNoHost == <<"h","t","t","p","s",":","/","/">>

ExampleCom == <<"e","x","a","m","p","l","e",".","c","o","m">>

Urls == {UrlArticle, UrlWww, UrlNoHost}

RECURSIVE Flatten(_)
\* the concatenation of a sequence of strings
Flatten(ss) == IF ss = <<>> THEN <<>> ELSE Head(ss) \o Flatten(Tail(ss))

RECURSIVE JoinLines(_)
\* lines joined by "\n"
JoinLines(ls) ==
    IF ls = <<>> THEN <<>>
    ELSE IF Len(ls) = 1 THEN ls[1]
    ELSE ls[1] \o NL \o JoinLines(Tail(ls))

\* the sequences of at most n elements of S
SeqsUpTo(S, n) == UNION {[1..k -> S] : k \in 0..n}

\* the values made of at most MaxValAtoms atoms
ValuesOf(atoms) == {Flatten(ss) : ss \in SeqsUpTo(atoms, MaxValAtoms)}

QuotedHello == DQ \o Hello \o DQ

QuotedBar == SQ \o Bar \o SQ

TitleValues == ValuesOf({Foo, Hello, QuotedHello, Stars3, DQ, ArticleViewCaps, Dash3})

MetaValues == ValuesOf({Bar, QuotedBar, DQ, SQ})

BodyLines == {BodyTextHere, MyHeadingLine, HashHashLine, SubHeadingLine, Dash3, <<>>}

Bodies == {JoinLines(ls) : ls \in SeqsUpTo(BodyLines, MaxBodyLines)}

\* "key: value"
MetaLine(key, value) == key \o <<":", " ">> \o value

\* a metadata line, or no line when the value is Absent
OptLine(key, value) == IF value = Absent THEN <<>> ELSE <<MetaLine(key, value)>>

\* "---\n<lines>\n---\n<body>": the output format the prompt asks for
WithBlock(tv, av, sv, body) ==
    JoinLines(<<Dash3>> \o OptLine(KeyTitle, tv) \o OptLine(KeyAuthor, av)
              \o OptLine(KeySiteName, sv) \o <<Dash3, body>>)

\* the example response of the specification
ExampleText == WithBlock(Foo, Bar, Baz, BodyTextHere)

HeadingText == JoinLines(<<MyHeadingLine, SomeBody>>)

\* responses whose title value varies
TitleInputs ==
    {[text |-> WithBlock(tv, Bar, Baz, body), url |-> u, form |-> "block",
      tv |-> tv, av |-> Bar, sv |-> Baz, body |-> body] :
        tv \in TitleValues, body \in {BodyTextHere, HeadingText}, u \in Urls}

\* responses whose author and siteName lines vary, or are absent
MetaInputs ==
    {[text |-> WithBlock(Hello, av, sv, BodyTextHere), url |-> UrlArticle, form |-> "block",
      tv |-> Hello, av |-> av, sv |-> sv, body |-> BodyTextHere] :
        av \in MetaValues \cup {Absent}, sv \in MetaValues \cup {Absent}}

\* responses whose body varies, after a block
BodyInputs ==
    {[text |-> WithBlock(Hello, Bar, Baz, body), url |-> UrlArticle, form |-> "block",
      tv |-> Hello, av |-> Bar, sv |-> Baz, body |-> body] : body \in Bodies}

\* responses without any block
PlainInputs ==
    {[text |-> body, url |-> u, form |-> "plain",
      tv |-> Absent, av |-> Absent, sv |-> Absent, body |-> body] :
        body \in (Bodies \cup {HeadingText}) \ {<<>>}, u \in Urls}

ParseInputs == TitleInputs \cup MetaInputs \cup BodyInputs \cup PlainInputs

-----------------------------------------------------------------------------
(* The generative service as fetchArticleContent sees it *)

FinishReasons == {"STOP", "SAFETY", "RECITATION", "MAX_TOKENS"}

\* error.message of what generateContent throws; "" stands for no message
ThrownMessages == {"", "503 overloaded"}

\* candidates[0].content.parts; a part without text has text = <<>>
PartsOptions ==
    {<<>>,
     <<[text |-> BodyTextHere]>>,
     <<[text |-> MyHeadingLine], [text |-> <<>>], [text |-> NL \o SomeBody]>>}

WebChunk == [hasWeb |-> TRUE, title |-> "Example", uri |-> "https://example.com/a"]

PlainChunk == [hasWeb |-> FALSE, title |-> "", uri |-> ""]

\* a chunk whose web payload has a uri and no title ("" stands for undefined)
UntitledChunk == [hasWeb |-> TRUE, title |-> "", uri |-> "https://example.com/b"]

\* groundingMetadata.groundingChunks: <<>> also stands for no grounding metadata
ChunkOptions == {<<>>, <<WebChunk, PlainChunk, UntitledChunk, WebChunk>>}

\* the responses generateContent may return
Responses ==
    {[text |-> t, hasParts |-> FALSE, parts |-> <<>>, finishReason |-> f, chunks |-> c] :
        t \in {ExampleText, HeadingText}, f \in FinishReasons, c \in ChunkOptions}
    \cup
    {[text |-> <<>>, hasParts |-> TRUE, parts |-> ps, finishReason |-> f, chunks |-> <<>>] :
        ps \in PartsOptions, f \in FinishReasons}
    \cup
    {[text |-> <<>>, hasParts |-> FALSE, parts |-> <<>>, finishReason |-> f, chunks |-> <<>>] :
        f \in FinishReasons}

\* parts.filter(p => p.text).map(p => p.text).join('')
JoinParts(parts) ==
    LET withText == SelectSeq(parts, LAMBDA p : p.text # <<>>)
    IN  Flatten([i \in 1..Len(withText) |-> withText[i].text])

\* a text extraction that reads the primary text field only
ResponseText_PrimaryOnly(resp) == resp.text

\* response.text || "", then the parts of the first candidate when that is empty
ResponseText(resp) ==
    IF resp.text # <<>> THEN resp.text
    ELSE IF resp.hasParts THEN JoinParts(resp.parts)
    ELSE <<>>

NoContentError == "No content received. The paywall may be extremely restrictive."

DefaultFetchError == "Failed to reconstruct the full article. This source is highly protected."

DefaultReadError == "Failed to process article"

\* a rethrow without the default message
RethrowMessage_NoDefault(msg) == msg

\* catch (error) { throw new Error(error.message || "Failed to reconstruct ...") }
RethrowMessage(msg) == IF msg # "" THEN msg ELSE DefaultFetchError

\* a fetch that classified the finish status: only STOP yields a record
FetchOutcome_Classified(resp) ==
    IF ResponseText(resp) = <<>> \/ resp.finishReason # "STOP" THEN "rejected" ELSE "resolved"

\* how a fetch whose generation call returned resp ends
FetchOutcome(resp) == IF ResponseText(resp) = <<>> THEN "rejected" ELSE "resolved"

\* two generation calls raced against each other
IssueCall_Race(r) == [r EXCEPT !.calls = @ + 2, !.inflight = @ + 2]

\* the generation calls fetchArticleContent issues when it starts: one, awaited
IssueCall(r) == [r EXCEPT !.calls = @ + 1, !.inflight = @ + 1]

\* a catch block that tried a second model before giving up
OnThrow_Fallback(r) ==
    [r EXCEPT !.pc = "rejected", !.inflight = 0, !.hist = <<>>, !.calls = @ + 1]

\* the invocation after its generation call threw: the catch block rethrows
OnThrow(r) == [r EXCEPT !.pc = "rejected", !.inflight = 0, !.hist = <<>>]

\* a fetch that issued a paraphrase retry after a RECITATION finish
OnResponse_RecitationRetry(r, resp) ==
    [r EXCEPT !.pc = FetchOutcome(resp), !.inflight = 0, !.hist = <<>>,
              !.calls = IF resp.finishReason = "RECITATION" THEN @ + 1 ELSE @]

\* the invocation after its generation call returned resp
OnResponse(r, resp) == [r EXCEPT !.pc = FetchOutcome(resp), !.inflight = 0, !.hist = <<>>]

-----------------------------------------------------------------------------
(* App *)

\* .slice(0, 20) of saveToHistory
HistoryLimit == 20

\* what the user types or clicks
InputUrls == {<<"e","x","a","m","p","l","e",".","c","o","m","/","a">>, UrlWww, <<" ">>}

Https == <<"h","t","t","p","s",":","/","/">>

\* /^https?:\/\//i.test(finalUrl)
HasHttpScheme(u) ==
    \/ StartsAt(toLowerCase(u), <<"h","t","t","p",":","/","/">>, 1)
    \/ StartsAt(toLowerCase(u), Https, 1)

\* handleRead: trim, then prepend https:// when the scheme is missing
FinalUrl(inputUrl) ==
    IF HasHttpScheme(trim(inputUrl)) THEN trim(inputUrl) ELSE Https \o trim(inputUrl)

\* a saveToHistory that does not filter out the entry of the same url
SavedHistory_NoDedupe(hist, article, id) ==
    LET newItem == [id |-> id, url |-> article.url, title |-> article.title]
        all     == <<newItem>> \o hist
    IN  SubSeq(all, 1, IF Len(all) < HistoryLimit THEN Len(all) ELSE HistoryLimit)

\* saveToHistory, on the history its closure captured
SavedHistory(hist, article, id) ==
    LET newItem == [id |-> id, url |-> article.url, title |-> article.title]
        rest    == SelectSeq(hist, LAMBDA h : h.url # article.url)
        all     == <<newItem>> \o rest
    IN  SubSeq(all, 1, IF Len(all) < HistoryLimit THEN Len(all) ELSE HistoryLimit)

\* setErrorMsg(err.message || "Failed to process article")
ReadErrorMessage(msg) == IF msg # "" THEN msg ELSE DefaultReadError

NoInv == [pc |-> "none", url |-> <<>>, hist |-> <<>>, calls |-> 0, inflight |-> 0]

NoLast == [n |-> 0, outcome |-> "none", threw |-> FALSE, finish |-> "none",
           hadText |-> FALSE, calls |-> 0, error |-> "", record |-> NULL,
           resp |-> NULL]

NoAsk == [pc |-> "none", outcome |-> "none", result |-> "", live |-> FALSE]

\* the state of a freshly mounted ArticleView; copying: a clipboard write is
\* pending; effect: the last thing the view did outside its own state
\* save, export: the state of the promise each handler awaits
NoView == [isSaving |-> FALSE, saveSuccess |-> FALSE, copying |-> FALSE,
           copied |-> FALSE, isExporting |-> FALSE, effect |-> "none",
           save |-> "none", export |-> "none"]

\* the sheet service before its first call. Module state: activeClientId,
\* tokenClient (0: undefined, n: the client made during call n), gapiInited.
\* scripts: whether gapi and google are defined ("loaded"), still to come
\* ("loading") or never to come ("failed"). The call in progress: pc, round
\* (which initializeGoogleApi of the call is running), token (the response the
\* token callback received), appends (append requests issued by the call),
\* append (how the request settled); calls counts the calls made
NoSheet == [pc |-> "idle", activeClientId |-> "", tokenClient |-> 0,
            gapiInited |-> FALSE, scripts |-> "loaded", round |-> 0,
            token |-> "none", appends |-> 0, append |-> "none", calls |-> 0]

DocTitle == <<"C","l","e","a","r","V","i","e","w">>

NoDoc == [title |-> DocTitle, timers |-> <<>>, clicks |-> 0]

\* the landing view is rendered: not (READING with an article)
LandingView == ~(appState = "READING" /\ articleData # NULL)

ReaderView == appState = "READING" /\ articleData # NULL

HistoryUrls == {history[i].url : i \in 1..Len(history)}

-----------------------------------------------------------------------------
(* App: handleRead, the settling of its fetch, handleBack *)

Questions == {<<"w","h","y","?">>, <<" ">>}

\* the outcomes of the generation call of askQuestionAboutArticle
AskOutcomes == {"throws", "empty", "text"}

AskFallbackEmpty == "No response generated."

AskFallbackError == "Error querying article."

AskHandlerError == "Failed to get answer."

\* an askQuestionAboutArticle without its catch block
AskResult_Propagate(outcome) ==
    IF outcome = "throws" THEN [settled |-> "rejected", value |-> ""]
    ELSE IF outcome = "empty" THEN [settled |-> "resolved", value |-> AskFallbackEmpty]
    ELSE [settled |-> "resolved", value |-> "An answer."]

\* askQuestionAboutArticle: return response.text || "No response generated.",
\* and the catch block returns "Error querying article."
AskResult(outcome) ==
    IF outcome = "throws" THEN [settled |-> "resolved", value |-> AskFallbackError]
    ELSE IF outcome = "empty" THEN [settled |-> "resolved", value |-> AskFallbackEmpty]
    ELSE [settled |-> "resolved", value |-> "An answer."]

\* the urls handleRead passes to fetchArticleContent
FetchUrls == {FinalUrl(i) : i \in {x \in InputUrls : trim(x) # <<>>}}

\* the record fetchArticleContent returns for url u when its generation call
\* returned resp, a response that carries text
FetchedArticle ==
    [u \in FetchUrls |->
        [resp \in {r \in Responses : ResponseText(r) # <<>>} |->
            ParseArticle(ResponseText(resp), u, resp.chunks)]]

\* the slot of the next handleRead invocation, 0 when the bound is reached
NextInv ==
    LET free == {n \in 1..MaxInv : inv[n].pc = "none"}
    IN  IF free = {} THEN 0 ELSE Min(free)

\* handleRead(inputUrl) up to its await: from the form (its button is disabled
\* while LOADING) or from a click on a history item
handleRead(inputUrl) ==
    /\ LandingView
    /\ NextInv # 0
    /\ trim(inputUrl) # <<>>
    /\ appState # "LOADING" \/ FinalUrl(inputUrl) \in HistoryUrls
    /\ appState' = "LOADING"
    /\ errorMsg' = ""
    /\ inv' = [inv EXCEPT ![NextInv] =
                  IssueCall([NoInv EXCEPT !.pc = "awaiting",
                                          !.url = FinalUrl(inputUrl),
                                          !.hist = history])]
    /\ UNCHANGED <<articleData, history, last, isAsking, answer, ask, view, envVars, parseVars>>

\* the catch block of handleRead
ReadFailed(msg) ==
    /\ errorMsg' = ReadErrorMessage(msg)
    /\ appState' = "ERROR"
    /\ UNCHANGED <<articleData, history>>

\* the generation call of invocation n throws an error with message msg
GenerateThrows(n, msg) ==
    /\ inv[n].pc = "awaiting"
    /\ inv' = [inv EXCEPT ![n] = OnThrow(inv[n])]
    /\ last' = [n |-> n, outcome |-> inv'[n].pc, threw |-> TRUE, finish |-> "none",
                hadText |-> FALSE, calls |-> inv'[n].calls,
                error |-> RethrowMessage(msg), record |-> NULL, resp |-> NULL]
    /\ ReadFailed(RethrowMessage(msg))
    /\ UNCHANGED <<isAsking, answer, ask, view, envVars, parseVars>>

\* the generation call of invocation n returns resp: the rest of
\* fetchArticleContent and of handleRead
GenerateReturns(n, resp) ==
    /\ inv[n].pc = "awaiting"
    /\ inv' = [inv EXCEPT ![n] = OnResponse(inv[n], resp)]
    /\ IF inv'[n].pc = "resolved"
       THEN LET data == FetchedArticle[inv[n].url][resp]
            IN  /\ last' = [n |-> n, outcome |-> "resolved", threw |-> FALSE,
                            finish |-> resp.finishReason,
                            hadText |-> ResponseText(resp) # <<>>,
                            calls |-> inv'[n].calls, error |-> "", record |-> data,
                            resp |-> resp]
                /\ articleData' = data
                /\ history' = SavedHistory(inv[n].hist, data, n)
                /\ appState' = "READING"
                /\ UNCHANGED errorMsg
       ELSE /\ last' = [n |-> n, outcome |-> inv'[n].pc, threw |-> FALSE,
                        finish |-> resp.finishReason,
                        hadText |-> ResponseText(resp) # <<>>,
                        calls |-> inv'[n].calls,
                        error |-> RethrowMessage(NoContentError), record |-> NULL,
                        resp |-> resp]
            /\ ReadFailed(RethrowMessage(NoContentError))
    /\ UNCHANGED <<isAsking, answer, ask, view, envVars, parseVars>>

\* a handleBack that clears the article and leaves appState as it is
handleBack_KeepsState ==
    /\ ReaderView
    /\ articleData' = NULL
    /\ isAsking' = FALSE
    /\ answer' = ""
    /\ ask' = [ask EXCEPT !.live = FALSE]
    /\ view' = NoView
    /\ UNCHANGED <<appState, errorMsg, history, inv, last, envVars, parseVars>>

\* handleBack, the onBack of the reader view; the view is unmounted
handleBack ==
    /\ ReaderView
    /\ appState' = "IDLE"
    /\ articleData' = NULL
    /\ isAsking' = FALSE
    /\ answer' = ""
    /\ ask' = [ask EXCEPT !.live = FALSE]
    /\ view' = NoView
    /\ UNCHANGED <<errorMsg, history, inv, last, envVars, parseVars>>

\* deleteHistoryItem(id), from the delete button of a history entry
deleteHistoryItem(id) ==
    /\ LandingView
    /\ \E i \in 1..Len(history) : history[i].id = id
    /\ history' = SelectSeq(history, LAMBDA h : h.id # id)
    /\ UNCHANGED <<appState, articleData, errorMsg, inv, last, isAsking, answer, ask,
                   view, envVars, parseVars>>

-----------------------------------------------------------------------------
(* ArticleView: handleAsk *)

\* handleAsk up to its await; the Ask button is disabled while isAsking
handleAsk(question) ==
    /\ ReaderView
    /\ ~isAsking
    /\ ask.pc # "pending"
    /\ trim(question) # <<>>
    /\ isAsking' = TRUE
    /\ ask' = [pc |-> "pending", outcome |-> "none", result |-> "", live |-> TRUE]
    /\ UNCHANGED <<appState, articleData, errorMsg, history, inv, last, answer, view, envVars, parseVars>>

\* the generation call of askQuestionAboutArticle settles, and handleAsk resumes
AskSettles(outcome) ==
    /\ ask.pc = "pending"
    /\ LET r == AskResult(outcome)
       IN  /\ ask' = [ask EXCEPT !.pc = r.settled, !.outcome = outcome, !.result = r.value]
           /\ IF ask.live
              THEN /\ answer' = IF r.settled = "resolved" THEN r.value ELSE AskHandlerError
                   /\ isAsking' = FALSE
              ELSE UNCHANGED <<answer, isAsking>>
    /\ UNCHANGED <<appState, articleData, errorMsg, history, inv, last, view, envVars, parseVars>>

-----------------------------------------------------------------------------
(* ArticleView: save to sheet, copy, print, download, export *)

SaveFailedAlert == "alert: Failed to save to Sheet."

\* what every ArticleView handler leaves alone: App and the chat
ViewFrame == UNCHANGED <<appState, articleData, errorMsg, history, inv, last,
                         isAsking, answer, ask, envVars, parseVars>>

\* handleSaveToSheet up to its await; the button is disabled while isSaving
\* or saveSuccess
handleSaveToSheet ==
    /\ ReaderView
    /\ ~view.isSaving
    /\ ~view.saveSuccess
    /\ view' = [view EXCEPT !.isSaving = TRUE, !.save = "pending"]
    /\ ViewFrame

\* how saveArticleToSheet settles: it resolves, it rejects, or it rejects
\* with the message CANCELLED_BY_USER
SaveOutcomes == {"resolved", "rejected", "cancelled"}

\* a handleSaveToSheet whose early return skips the clearing of isSaving
AfterSave_NoFinally(v, outcome) ==
    IF outcome = "resolved"
    THEN [v EXCEPT !.save = outcome, !.saveSuccess = TRUE, !.isSaving = FALSE]
    ELSE IF outcome = "cancelled"
    THEN [v EXCEPT !.save = outcome]
    ELSE [v EXCEPT !.save = outcome, !.effect = SaveFailedAlert, !.isSaving = FALSE]

\* the view after the try, catch and finally of handleSaveToSheet: a
\* CANCELLED_BY_USER rejection returns from the catch block without an alert,
\* and the finally block runs on every path
AfterSave(v, outcome) ==
    IF outcome = "resolved"
    THEN [v EXCEPT !.save = outcome, !.saveSuccess = TRUE, !.isSaving = FALSE]
    ELSE IF outcome = "cancelled"
    THEN [v EXCEPT !.save = outcome, !.isSaving = FALSE]
    ELSE [v EXCEPT !.save = outcome, !.effect = SaveFailedAlert, !.isSaving = FALSE]

\* a failing save that took the user back to the landing page
SaveSettles_LeavesReader(outcome) ==
    /\ view.save = "pending"
    /\ IF outcome = "resolved"
       THEN /\ view' = AfterSave(view, outcome)
            /\ UNCHANGED <<appState, articleData>>
       ELSE /\ view' = NoView
            /\ appState' = "ERROR"
            /\ articleData' = NULL
    /\ UNCHANGED <<errorMsg, history, inv, last, isAsking, answer, ask, envVars, parseVars>>

\* saveArticleToSheet settles and handleSaveToSheet resumes
SaveSettles(outcome) ==
    /\ view.save = "pending"
    /\ view' = AfterSave(view, outcome)
    /\ ViewFrame

\* setTimeout(() => setSaveSuccess(false), 3000)
SaveSuccessExpires ==
    /\ view.saveSuccess
    /\ view' = [view EXCEPT !.saveSuccess = FALSE]
    /\ ViewFrame

\* handleCopy up to its await of navigator.clipboard.writeText
handleCopy ==
    /\ ReaderView
    /\ ~view.copying
    /\ view' = [view EXCEPT !.copying = TRUE]
    /\ ViewFrame

\* the clipboard write settles; a failure is ignored by the catch block
CopySettles(ok) ==
    /\ view.copying
    /\ view' = [view EXCEPT !.copying = FALSE, !.copied = IF ok THEN TRUE ELSE @]
    /\ ViewFrame

\* setTimeout(() => setCopied(false), 2000)
CopiedExpires ==
    /\ view.copied
    /\ view' = [view EXCEPT !.copied = FALSE]
    /\ ViewFrame

\* handleNativePrint: window.print()
handleNativePrint ==
    /\ ReaderView
    /\ view' = [view EXCEPT !.effect = "print"]
    /\ ViewFrame

\* handleDownloadMD: a markdown file built from the article is downloaded
handleDownloadMD ==
    /\ ReaderView
    /\ view' = [view EXCEPT !.effect = "download"]
    /\ ViewFrame

\* handleExportPDF up to its await; the button is disabled while isExporting
handleExportPDF ==
    /\ ReaderView
    /\ ~view.isExporting
    /\ view' = [view EXCEPT !.isExporting = TRUE, !.export = "pending"]
    /\ ViewFrame

\* html2pdf settles (or is not loaded): a failure falls back to window.print()
ExportSettles(ok) ==
    /\ view.export = "pending"
    /\ view' = [view EXCEPT !.isExporting = FALSE,
                            !.export = IF ok THEN "resolved" ELSE "rejected",
                            !.effect = IF ok THEN "pdf" ELSE "print"]
    /\ ViewFrame

-----------------------------------------------------------------------------
(* The application *)

\* the histories the mount effect may load from local storage
StoredHistories == {<<>>, <<[id |-> 0, url |-> UrlWww, title |-> Hello]>>}

Init ==
    /\ appState = "IDLE"
    /\ articleData = NULL
    /\ errorMsg = ""
    /\ history \in StoredHistories
    /\ inv = [n \in 1..MaxInv |-> NoInv]
    /\ last = NoLast
    /\ isAsking = FALSE
    /\ answer = ""
    /\ ask = NoAsk
    /\ view = NoView
    /\ sheet = NoSheet
    /\ doc = NoDoc
    /\ pIn = NULL
    /\ pOut = NULL

Next ==
    \/ \E u \in InputUrls : handleRead(u)
    \/ \E n \in 1..MaxInv, msg \in ThrownMessages : GenerateThrows(n, msg)
    \/ \E n \in 1..MaxInv, resp \in Responses : GenerateReturns(n, resp)
    \/ handleBack
    \/ \E id \in {history[i].id : i \in 1..Len(history)} : deleteHistoryItem(id)

Spec == Init /\ [][Next]_vars

-----------------------------------------------------------------------------
(* The reader view on its own: ArticleView mounted on a fetched article *)

\* the invocation whose generation call returned resp for url u
SettledInv(u, resp) ==
    OnResponse(IssueCall([NoInv EXCEPT !.pc = "awaiting", !.url = u]), resp)

\* the state App is in when its first handleRead(u) has resolved with resp
InitView ==
    \E u \in FetchUrls,
       resp \in {r \in Responses : FetchOutcome(r) = "resolved"} :
        LET data == FetchedArticle[u][resp]
        IN  /\ appState = "READING"
            /\ articleData = data
            /\ errorMsg = ""
            /\ history = SavedHistory(<<>>, data, 1)
            /\ inv = [n \in 1..MaxInv |-> IF n = 1 THEN SettledInv(u, resp) ELSE NoInv]
            /\ last = [n |-> 1, outcome |-> "resolved", threw |-> FALSE,
                        finish |-> resp.finishReason, hadText |-> TRUE,
                        calls |-> 1, error |-> "", record |-> data, resp |-> resp]
            /\ isAsking = FALSE
            /\ answer = ""
            /\ ask = NoAsk
            /\ view = NoView
            /\ sheet = NoSheet
            /\ doc = NoDoc
            /\ pIn = NULL
            /\ pOut = NULL

NextView ==
    \/ \E q \in Questions : handleAsk(q)
    \/ \E o \in AskOutcomes : AskSettles(o)
    \/ handleSaveToSheet
    \/ \E o \in SaveOutcomes : SaveSettles(o)
    \/ SaveSuccessExpires
    \/ handleCopy
    \/ \E ok \in BOOLEAN : CopySettles(ok)
    \/ CopiedExpires
    \/ handleNativePrint
    \/ handleDownloadMD
    \/ handleExportPDF
    \/ \E ok \in BOOLEAN : ExportSettles(ok)
    \/ handleBack

SpecView == InitView /\ [][NextView]_vars

-----------------------------------------------------------------------------
(* The Google sheet service behind handleSaveToSheet: initializeGoogleApi and
   saveArticleToSheet, one step per callback *)

MaxSheetCalls == 3

ClientId == "client-id"

\* what window.prompt returns: an id, white space only, or nothing (Cancel or
\* an empty line)
PromptAnswers == {"id", "blank", "cancel"}

\* saveArticleToSheet settles and the handleSaveToSheet that awaits it resumes
SaveSettled(sh, outcome) == [sh EXCEPT !.pc = outcome]

\* checkScripts: loadClients when gapi and google are defined, otherwise
\* setTimeout(checkScripts, 100)
checkScripts(sh) ==
    [sh EXCEPT !.pc = IF sh.scripts = "loaded" THEN "gapiLoad" ELSE "polling"]

\* initializeGoogleApi up to the return of its promise
initializeGoogleApi(sh, clientId, round) ==
    checkScripts([sh EXCEPT !.activeClientId = IF clientId # "" THEN clientId ELSE @,
                            !.round = round])

\* a click on Save to Sheet: handleSaveToSheet up to its await, and
\* saveArticleToSheet up to its first await or throw
saveArticleToSheet(promptAnswer) ==
    /\ ReaderView
    /\ ~view.isSaving /\ ~view.saveSuccess
    /\ sheet.calls < MaxSheetCalls
    /\ sheet.pc \in {"idle", "resolved", "rejected"}
    /\ LET call == [sheet EXCEPT !.calls = @ + 1, !.round = 0, !.token = "none",
                                 !.appends = 0, !.append = "none"]
           clicked == [view EXCEPT !.isSaving = TRUE, !.save = "pending"]
       IN  IF sheet.activeClientId = ""
           THEN IF promptAnswer = "cancel"
                THEN /\ sheet' = SaveSettled(call, "rejected")
                     /\ view' = AfterSave(clicked, "rejected")
                ELSE /\ sheet' = initializeGoogleApi(
                                     [call EXCEPT !.activeClientId =
                                         IF promptAnswer = "id" THEN ClientId ELSE ""],
                                     IF promptAnswer = "id" THEN ClientId ELSE "", 1)
                     /\ view' = clicked
           ELSE /\ promptAnswer = "id"
                /\ sheet' = initializeGoogleApi(call, "", 1)
                /\ view' = clicked
    /\ UNCHANGED <<appState, articleData, errorMsg, history, inv, last,
                   isAsking, answer, ask, doc, parseVars>>

\* the script tags of the page finish loading
ScriptsLoad ==
    /\ sheet.scripts = "loading"
    /\ sheet' = [sheet EXCEPT !.scripts = "loaded"]
    /\ UNCHANGED <<appState, articleData, errorMsg, history, inv, last,
                   isAsking, answer, ask, view, doc, parseVars>>

\* the 100 ms timer of checkScripts fires
PollScripts ==
    /\ sheet.pc = "polling"
    /\ sheet' = checkScripts(sheet)
    /\ UNCHANGED <<appState, articleData, errorMsg, history, inv, last,
                   isAsking, answer, ask, view, doc, parseVars>>

\* what the callback of gapi.load can run into: nothing, a gapi.client.init
\* that rejects, an initTokenClient that throws
LoadFailures == {"none", "init", "tokenClient"}

\* a token response handled without looking at resp.error
AfterToken_IgnoresError(sh, error) ==
    [sh EXCEPT !.token = IF error THEN "error" ELSE "granted",
               !.appends = @ + 1, !.append = "pending", !.pc = "append"]

\* tokenClient.callback up to its await: an error response rejects, any other
\* issues the append request
AfterToken(sh, error) ==
    IF error
    THEN [sh EXCEPT !.token = "error", !.pc = "rejected"]
    ELSE [sh EXCEPT !.token = "granted", !.appends = @ + 1, !.append = "pending",
                    !.pc = "append"]

\* the callback of gapi.load runs, and saveArticleToSheet resumes when the
\* initialization resolved or rejected; reset: the answer to window.confirm
ClientLoaded(failure, reset) ==
    /\ sheet.pc = "gapiLoad"
    /\ failure = "init" => ~sheet.gapiInited
    /\ failure = "tokenClient" => sheet.activeClientId # ""
    /\ LET inited == [sheet EXCEPT !.gapiInited = @ \/ failure # "init"]
           made == IF sheet.activeClientId # ""
                   THEN [inited EXCEPT !.tokenClient = sheet.calls]
                   ELSE inited
       IN  IF failure # "none"
           THEN /\ sheet' = SaveSettled(inited, "rejected")
                /\ view' = AfterSave(view, "rejected")
           ELSE IF made.tokenClient # 0
           THEN /\ sheet' = [made EXCEPT !.pc = "token"]
                /\ UNCHANGED view
           ELSE IF sheet.round = 1
           THEN /\ sheet' = initializeGoogleApi(made, made.activeClientId, 2)
                /\ UNCHANGED view
           ELSE /\ sheet' = SaveSettled([made EXCEPT !.activeClientId =
                                         IF reset THEN "" ELSE @], "rejected")
                /\ view' = AfterSave(view, "rejected")
    /\ UNCHANGED <<appState, articleData, errorMsg, history, inv, last,
                   isAsking, answer, ask, doc, parseVars>>

\* the token client calls tokenClient.callback with its response
TokenResponse(error) ==
    /\ sheet.pc = "token"
    /\ sheet' = AfterToken(sheet, error)
    /\ view' = IF sheet'.pc = "rejected" THEN AfterSave(view, "rejected") ELSE view
    /\ UNCHANGED <<appState, articleData, errorMsg, history, inv, last,
                   isAsking, answer, ask, doc, parseVars>>

\* the user closes the consent popup: the token client reports it to an
\* error_callback, and initTokenClient was given client_id, scope and
\* callback only
PopupDismissed ==
    /\ sheet.pc = "token"
    /\ sheet' = [sheet EXCEPT !.pc = "dismissed"]
    /\ UNCHANGED <<appState, articleData, errorMsg, history, inv, last,
                   isAsking, answer, ask, view, doc, parseVars>>

\* gapi.client.sheets.spreadsheets.values.append settles
AppendSettles(ok) ==
    /\ sheet.pc = "append"
    /\ sheet' = SaveSettled([sheet EXCEPT !.append = IF ok THEN "ok" ELSE "failed"],
                        IF ok THEN "resolved" ELSE "rejected")
    /\ view' = AfterSave(view, IF ok THEN "resolved" ELSE "rejected")
    /\ UNCHANGED <<appState, articleData, errorMsg, history, inv, last,
                   isAsking, answer, ask, doc, parseVars>>

\* ArticleView mounted; the client id comes from the environment or the local
\* storage, or is missing
InitSheet ==
    \E u \in FetchUrls,
       resp \in {r \in Responses : FetchOutcome(r) = "resolved"},
       id \in {"", ClientId},
       scripts \in {"loaded", "loading", "failed"} :
        LET data == FetchedArticle[u][resp]
        IN  /\ appState = "READING"
            /\ articleData = data
            /\ errorMsg = ""
            /\ history = SavedHistory(<<>>, data, 1)
            /\ inv = [n \in 1..MaxInv |-> IF n = 1 THEN SettledInv(u, resp) ELSE NoInv]
            /\ last = [n |-> 1, outcome |-> "resolved", threw |-> FALSE,
                        finish |-> resp.finishReason, hadText |-> TRUE,
                        calls |-> 1, error |-> "", record |-> data, resp |-> resp]
            /\ isAsking = FALSE
            /\ answer = ""
            /\ ask = NoAsk
            /\ view = NoView
            /\ sheet = [NoSheet EXCEPT !.activeClientId = id, !.scripts = scripts]
            /\ doc = NoDoc
            /\ pIn = NULL
            /\ pOut = NULL

PopupAnswered ==
    \/ \E error \in BOOLEAN : TokenResponse(error)
    \/ PopupDismissed

NextSheet ==
    \/ \E a \in PromptAnswers : saveArticleToSheet(a)
    \/ ScriptsLoad
    \/ PollScripts
    \/ \E f \in LoadFailures, reset \in BOOLEAN : ClientLoaded(f, reset)
    \/ PopupAnswered
    \/ \E ok \in BOOLEAN : AppendSettles(ok)
    \/ SaveSuccessExpires

SpecSheet == InitSheet /\ [][NextSheet]_vars

\* timers fire, pending script loads and requests complete, callbacks that
\* are due run, and the user does not leave the consent popup open for ever
SheetFairness ==
    /\ WF_vars(ScriptsLoad)
    /\ WF_vars(PollScripts)
    /\ WF_vars(\E f \in LoadFailures, reset \in BOOLEAN : ClientLoaded(f, reset))
    /\ WF_vars(PopupAnswered)
    /\ WF_vars(\E ok \in BOOLEAN : AppendSettles(ok))
    /\ WF_vars(SaveSuccessExpires)

SpecSheetFair == InitSheet /\ [][NextSheet]_vars /\ SheetFairness

-----------------------------------------------------------------------------
(* ArticleView: handleExportPDF through the print dialog of the browser *)

MaxClicks == 3

PrintWords == 6

\* s.split(/\s+/) from position i on; cur: the piece being read, inSep: the
\* last character read was white space
RECURSIVE SplitSpaces(_, _, _, _)
SplitSpaces(s, i, cur, inSep) ==
    IF i > Len(s) THEN <<cur>>
    ELSE IF IsSpace(s[i])
    THEN IF inSep THEN SplitSpaces(s, i + 1, cur, TRUE)
         ELSE <<cur>> \o SplitSpaces(s, i + 1, <<>>, TRUE)
    ELSE SplitSpaces(s, i + 1, Append(cur, s[i]), FALSE)

\* words.join(' ')
RECURSIVE JoinWords(_)
JoinWords(ws) ==
    IF ws = <<>> THEN <<>>
    ELSE IF Len(ws) = 1 THEN ws[1]
    ELSE ws[1] \o <<" ">> \o JoinWords(Tail(ws))

\* the title the print dialog proposes as file name: the first six words of
\* article.title, or of 'Article' when the title is empty
PrintTitle(title) ==
    LET words == SelectSeq(SplitSpaces(IF title = <<>>
                                       THEN <<"A","r","t","i","c","l","e">>
                                       ELSE title, 1, <<>>, FALSE),
                           LAMBDA w : Len(w) > 0)
    IN  JoinWords(SubSeq(words, 1, Min({PrintWords, Len(words)})))

PrintFailedAlert ==
    "alert: Print dialog could not be opened. Check if your browser is blocking popups/dialogs."

\* a click on the export button: the title is changed, window.print() opens
\* the dialog and returns or throws, and the timer that restores the title
\* captured at the click is set
handleExportPDFPrint(printOk) ==
    /\ ReaderView
    /\ doc.clicks < MaxClicks
    /\ LET originalTitle == doc.title
       IN  doc' = [title |-> PrintTitle(articleData.title),
                   timers |-> Append(doc.timers, originalTitle),
                   clicks |-> doc.clicks + 1]
    /\ view' = [view EXCEPT !.effect = IF printOk THEN "print" ELSE PrintFailedAlert]
    /\ UNCHANGED <<appState, articleData, errorMsg, history, inv, last,
                   isAsking, answer, ask, sheet, parseVars>>

\* the oldest restore timer fires, 1000 ms after its click
RestoreTimerFires ==
    /\ doc.timers # <<>>
    /\ doc' = [doc EXCEPT !.title = Head(doc.timers), !.timers = Tail(doc.timers)]
    /\ UNCHANGED <<appState, articleData, errorMsg, history, inv, last,
                   isAsking, answer, ask, view, sheet, parseVars>>

\* titles of the articles on show: none, more than six words, white space
\* around the words
PrintTitles ==
    { <<>>,
      <<"a"," ","b"," ","c"," ","d"," ","e"," ","f"," ","g">>,
      <<" ","T","h","e"," "," ","n","e","w","s"," ">> }

InitPrint ==
    \E u \in FetchUrls,
       resp \in {r \in Responses : FetchOutcome(r) = "resolved"},
       own \in BOOLEAN, t \in PrintTitles :
        LET fetched == FetchedArticle[u][resp]
            data == IF own THEN fetched ELSE [fetched EXCEPT !.title = t]
        IN  /\ appState = "READING"
            /\ articleData = data
            /\ errorMsg = ""
            /\ history = SavedHistory(<<>>, data, 1)
            /\ inv = [n \in 1..MaxInv |-> IF n = 1 THEN SettledInv(u, resp) ELSE NoInv]
            /\ last = [n |-> 1, outcome |-> "resolved", threw |-> FALSE,
                        finish |-> resp.finishReason, hadText |-> TRUE,
                        calls |-> 1, error |-> "", record |-> data, resp |-> resp]
            /\ isAsking = FALSE
            /\ answer = ""
            /\ ask = NoAsk
            /\ view = NoView
            /\ sheet = NoSheet
            /\ doc = NoDoc
            /\ pIn = NULL
            /\ pOut = NULL

NextPrint ==
    \/ \E printOk \in BOOLEAN : handleExportPDFPrint(printOk)
    \/ RestoreTimerFires

SpecPrint == InitPrint /\ [][NextPrint]_vars

-----------------------------------------------------------------------------
(* The reading history on its own: saveToHistory and deleteHistoryItem *)

\* the k-th of the urls of the history harness
HistoryUrl(k) == UrlWww \o <<"/">> \o [i \in 1..k |-> "x"]

\* a stored history of n entries, the most recent first
StoredHistory(n) == [i \in 1..n |-> [id |-> 0 - i, url |-> HistoryUrl(i), title |-> Hello]]

\* the articles saved: urls the history holds and urls it does not
SavedArticles ==
    {[url |-> HistoryUrl(k), title |-> Foo] :
        k \in {1, HistoryLimit, HistoryLimit + 1, HistoryLimit + 2}}

\* the entries whose delete button is clicked: the newest and the oldest
\* stored ones, and the saved ones
DeletedIds == {0 - 1, 0 - HistoryLimit} \cup (0..MaxSaves)

InitHistory ==
    /\ appState = "IDLE"
    /\ articleData = NULL
    /\ errorMsg = ""
    /\ history \in {StoredHistory(n) : n \in {0, 1, HistoryLimit - 1, HistoryLimit}}
    /\ inv = [n \in 1..MaxInv |-> NoInv]
    /\ last = NoLast
    /\ isAsking = FALSE
    /\ answer = ""
    /\ ask = NoAsk
    /\ view = NoView
    /\ sheet = NoSheet
    /\ doc = NoDoc
    /\ pIn = NULL
    /\ pOut = NULL

\* saveToHistory(article) on the current history; Date.now() gives the id:
\* the time of the previous save or a later one. last keeps the saved article.
saveToHistory(article, id) ==
    /\ last.calls < MaxSaves
    /\ id \in {last.n, last.n + 1}
    /\ history' = SavedHistory(history, article, id)
    /\ last' = [NoLast EXCEPT !.n = id, !.calls = last.calls + 1, !.record = article]
    /\ UNCHANGED <<appState, articleData, errorMsg, inv, isAsking, answer, ask, view, envVars, parseVars>>

NextHistory ==
    \/ \E a \in SavedArticles, id \in 0..MaxSaves : saveToHistory(a, id)
    \/ \E id \in DeletedIds : deleteHistoryItem(id)

SpecHistory == InitHistory /\ [][NextHistory]_vars

-----------------------------------------------------------------------------
(* The prompt of askQuestionAboutArticle on its own *)

\* the 30000 of articleContent.substring(0, 30000)
AskLimit == 30000

\* String.prototype.substring(start, end) for 0 <= start <= end
substring(s, start, end) == SubSeq(s, start + 1, IF end < Len(s) THEN end ELSE Len(s))

\* a prompt that embeds the end of the article, articleContent.slice(-30000)
EmbeddedText_Tail(articleContent) ==
    SubSeq(articleContent,
           IF Len(articleContent) > AskLimit THEN Len(articleContent) - AskLimit + 1 ELSE 1,
           Len(articleContent))

\* ${articleContent.substring(0, 30000)}
EmbeddedText(articleContent) == substring(articleContent, 0, AskLimit)

\* an article text of n characters
ArticleText(n) == [i \in 1..n |-> <<"a", "b", "c">>[(i % 3) + 1]]

AskInputs ==
    {[content |-> ArticleText(n), question |-> q] :
        n \in (0..MaxShort) \cup ((AskLimit - MaxAround)..(AskLimit + MaxAround)),
        q \in {x \in Questions : trim(x) # <<>>}}

InitAsk ==
    /\ appState = "IDLE"
    /\ articleData = NULL
    /\ errorMsg = ""
    /\ history = <<>>
    /\ inv = [n \in 1..MaxInv |-> NoInv]
    /\ last = NoLast
    /\ isAsking = FALSE
    /\ answer = ""
    /\ ask = NoAsk
    /\ view = NoView
    /\ sheet = NoSheet
    /\ doc = NoDoc
    /\ pIn \in AskInputs
    /\ pOut = NULL

\* the contents of the generation call of askQuestionAboutArticle
AskPrompt ==
    /\ pOut = NULL
    /\ pOut' = [context |-> EmbeddedText(pIn.content), question |-> pIn.question]
    /\ UNCHANGED <<pIn, appVars>>

NextAsk == AskPrompt

SpecAsk == InitAsk /\ [][NextAsk]_vars

-----------------------------------------------------------------------------
(* The parsing code on its own: one response text and url, parsed once *)

InitParse ==
    /\ appState = "IDLE"
    /\ articleData = NULL
    /\ errorMsg = ""
    /\ history = <<>>
    /\ inv = [n \in 1..MaxInv |-> NoInv]
    /\ last = NoLast
    /\ isAsking = FALSE
    /\ answer = ""
    /\ ask = NoAsk
    /\ view = NoView
    /\ sheet = NoSheet
    /\ doc = NoDoc
    /\ pIn \in ParseInputs
    /\ pOut = NULL

\* lines 80-132 of fetchArticleContent on the response text pIn.text
ParseResponse ==
    /\ pOut = NULL
    /\ pOut' = ParseArticle(pIn.text, pIn.url, <<>>)
    /\ UNCHANGED <<pIn, appVars>>

NextParse == ParseResponse

SpecParse == InitParse /\ [][NextParse]_vars

-----------------------------------------------------------------------------
(* Claims about the generation calls of fetchArticleContent *)

\* a fetch has settled
Settled == last.outcome \in {"resolved", "rejected"}

C4_CallsBoundedAndSequential ==
    /\ \A n \in 1..MaxInv : inv[n].calls <= 3 /\ inv[n].inflight <= 1
    /\ last.calls <= 3

\* two invocations are pending together, each with its one call in flight
C4_Witness ==
    \E n, m \in 1..MaxInv :
        /\ n # m
        /\ inv[n].pc = "awaiting" /\ inv[n].inflight = 1
        /\ inv[m].pc = "awaiting" /\ inv[m].inflight = 1

\* C5: askQuestionAboutArticle never rejects: it resolves to a non-empty
\* string, a fixed fallback string when the call throws or yields no text.
C5_AskAlwaysResolves ==
    /\ ask.pc # "rejected"
    /\ ask.pc = "resolved" =>
          /\ ask.result # ""
          /\ ask.outcome = "throws" => ask.result = AskFallbackError
          /\ ask.outcome = "empty" => ask.result = AskFallbackEmpty
          /\ ask.live => answer = ask.result /\ ~isAsking

C5_Witness == ask.pc = "resolved" /\ ask.outcome = "throws" /\ ask.live

\* C6: a failing fetch rejects with a non-empty message and no record, and
\* handleRead ends in ERROR showing that message, with articleData and the
\* history as they were.
C6_FailureLeavesArticleAndHistory ==
    [][\A n \in 1..MaxInv :
          (inv[n].pc = "awaiting" /\ inv'[n].pc = "rejected") =>
              /\ last'.error # ""
              /\ last'.record = NULL
              /\ appState' = "ERROR"
              /\ errorMsg' = last'.error
              /\ articleData' = articleData
              /\ history' = history]_vars

C6_Witness ==
    /\ Settled
    /\ last.outcome = "rejected"
    /\ appState = "ERROR"
    /\ errorMsg = DefaultFetchError
    /\ history # <<>>

-----------------------------------------------------------------------------
(* Claims about the record the parsing code builds *)

Parsed == pOut # NULL

\* the metadata value is unset: no block, no line, an empty value, or a value
\* that is only a pair of quotes
Unset(v) == v = Absent \/ v = <<>> \/ v = DQ \o DQ \/ v = SQ \o SQ

\* C7: for every non-empty response text and every url the returned title is
\* a non-empty string.
C7_TitleNeverEmpty == Parsed => pOut.title # <<>>

\* C8: author and siteName are never empty, and are "Unknown" and "Web" when
\* the response has no block, the block lacks the key, or the value is empty
\* or only a pair of quotes.
C8_AuthorSiteNameDefaults ==
    Parsed =>
        /\ pOut.author # <<>>
        /\ pOut.siteName # <<>>
        /\ Unset(pIn.av) => pOut.author = Unknown
        /\ Unset(pIn.sv) => pOut.siteName = Web

\* C9: when the response starts with a three-dash-delimited metadata block,
\* content is the text after the block's closing delimiter, trimmed, and
\* holds none of the block's key: value lines.
C9_ContentExcludesBlock ==
    (Parsed /\ pIn.form = "block") =>
        /\ pOut.content = trim(pIn.body)
        /\ ~includes(pOut.content, KeyTitle \o Colon)
        /\ ~includes(pOut.content, KeyAuthor \o Colon)
        /\ ~includes(pOut.content, KeySiteName \o Colon)

\* the value has no quote at either end
PlainValue(v) == v[1] \notin Quotes /\ v[Len(v)] \notin Quotes

\* the value is wrapped in one matching pair of quotes
PairQuoted(v) == Len(v) >= 2 /\ v[1] \in Quotes /\ v[Len(v)] = v[1]

\* a metadata value of a well-formed block: present, not empty, free of the
\* delimiter, and either plain or wrapped in a matching pair of quotes
WellFormedValue(v) ==
    /\ v # Absent
    /\ v # <<>>
    /\ ~includes(v, Dash3)
    /\ PlainValue(v) \/ PairQuoted(v)

WellFormed(i) ==
    /\ i.form = "block"
    /\ WellFormedValue(i.tv)
    /\ WellFormedValue(i.av)
    /\ WellFormedValue(i.sv)

\* the literal value with its pair of quotes stripped
Unquote(v) == IF PairQuoted(v) THEN SubSeq(v, 2, Len(v) - 1) ELSE v

\* the literal value without the markup characters, trimmed
WithoutMarkup(v) == trim(SelectSeq(v, LAMBDA c : c \notin {"*", "_", "#"}))

\* a title the fallback chain leaves alone
LongEnough(t) == Len(t) >= 5 /\ ~includes(toLowerCase(t), ArticleViewPlaceholder)

-----------------------------------------------------------------------------
(* Claims about the title fallback, the sources and the parser's totality *)

\* a markdown heading of the given level starts at index p of s
HeadingAt(s, p, level) ==
    /\ LineStart(s, p)
    /\ StartsAt(s, [k \in 1..level |-> "#"] \o <<" ">>, p)

\* where the first heading of level 1 or 2 starts in s, 0 when there is none
FirstHeading(s) ==
    LET hs == {p \in 1..Len(s) : HeadingAt(s, p, 1) \/ HeadingAt(s, p, 2)}
    IN  IF hs = {} THEN 0 ELSE Min(hs)

\* the text of the heading that starts at index p
TextOfHeading(s, p) ==
    RestOfLine(s, IF HeadingAt(s, p, 1) THEN p + 2 ELSE p + 3)

\* C11: for a response without a block the title is the text of the first
\* heading of level 1 or 2 (markup characters removed), else the title derived
\* from the url when it parses, else the fixed literal title.
C11_TitlePriority ==
    (Parsed /\ pIn.form = "plain") =>
        LET p == FirstHeading(pIn.text)
        IN  IF p # 0
            THEN pOut.title = WithoutMarkup(TextOfHeading(pIn.text, p))
            ELSE IF pIn.url = UrlNoHost
                 THEN pOut.title = ExtractedArticle
                 ELSE pOut.title \notin {<<>>, ExtractedArticle}

SomeCoolArticle == <<"S","o","m","e"," ","c","o","o","l"," ","a","r","t","i","c","l","e">>

\* the url-derived title as the claim describes it
ClaimedUrlTitle(url) == IF url = UrlArticle THEN SomeCoolArticle ELSE ExampleCom

\* C12: without block and heading the title is the last path segment of the
\* url, hyphens replaced by spaces and capitalized, or the hostname without
\* "www." when there is no path; the example url yields "Some cool article".
C12_UrlDerivedTitle ==
    (Parsed /\ pIn.form = "plain" /\ FirstHeading(pIn.text) = 0 /\ pIn.url # UrlNoHost) =>
        pOut.title = ClaimedUrlTitle(pIn.url)

\* C13: every entry of sources in the returned record has a non-empty title
\* and a non-empty uri.
C13_SourcesHaveTitleAndUri ==
    last.record # NULL =>
        \A i \in 1..Len(last.record.sources) :
            last.record.sources[i].title # "" /\ last.record.sources[i].uri # ""

\* the text has no heading, and its block (if any) gives no usable title
NoTitleInText(i) ==
    /\ ~includes(i.text, <<"#">>)
    /\ i.form = "plain" \/ i.tv = Foo

\* C14: the parsing code returns a record with title, content, author,
\* siteName, url and sources for every non-empty text and every url; a url
\* that does not parse gives the fixed literal title, not an error.
C14_ParserTotal ==
    Parsed =>
        /\ DOMAIN pOut = {"title", "content", "author", "siteName", "url", "sources"}
        /\ pOut.url = pIn.url
        /\ pOut.sources = <<>>
        /\ (pIn.url = UrlNoHost /\ NoTitleInText(pIn)) => pOut.title = ExtractedArticle

C14_Witness ==
    /\ Parsed
    /\ pIn.form = "plain"
    /\ pIn.url = UrlNoHost
    /\ pIn.text = BodyTextHere
    /\ pOut.title = ExtractedArticle
    /\ pOut.content = BodyTextHere

-----------------------------------------------------------------------------
(* Claims about the reader view *)

\* how many of the view's operations (chat, save, copy, export) changed their
\* own state in a step
ChangedOperations ==
    LET chat   == <<isAsking, answer, ask>>' # <<isAsking, answer, ask>>
        save   == <<view.isSaving, view.saveSuccess>>' # <<view.isSaving, view.saveSuccess>>
        copy   == <<view.copying, view.copied>>' # <<view.copying, view.copied>>
        export == view.isExporting' # view.isExporting
    IN  Cardinality({o \in {"chat", "save", "copy", "export"} :
                        \/ o = "chat" /\ chat
                        \/ o = "save" /\ save
                        \/ o = "copy" /\ copy
                        \/ o = "export" /\ export})

\* C15: no step of the reader view other than Back (asking, saving, copying,
\* printing, downloading, exporting, and the settling of each, success or
\* failure) changes appState, articleData, the history or the error message;
\* the view keeps showing the article and a step changes the state of one
\* operation at most.
C15_ViewActionsKeepArticle ==
    [][(ReaderView /\ ~handleBack) =>
          /\ articleData' = articleData
          /\ appState' = appState
          /\ history' = history
          /\ errorMsg' = errorMsg
          /\ ReaderView'
          /\ ChangedOperations <= 1]_vars

\* a save has failed and a question's call has thrown, and the article is
\* still shown
C15_Witness ==
    /\ ReaderView
    /\ view.effect = SaveFailedAlert
    /\ ~view.isSaving
    /\ ask.pc = "resolved" /\ ask.outcome = "throws"
    /\ articleData = last.record

-----------------------------------------------------------------------------
(* Claims about the split of the response into block and content *)

\* C18: for a response without a leading block the content is the whole
\* response text, also when a heading of it is used as title or when it holds
\* "---" rules; "# My Heading\nSome body" gives the title "My Heading" and
\* the input as content.
C18_PlainContentIsWholeText ==
    (Parsed /\ pIn.form = "plain") =>
        /\ pOut.content = pIn.text
        /\ pIn.text = HeadingText => pOut.title = MyHeading

\* the value does not hold the delimiter
DashFree(v) == ~includes(v, Dash3)

\* C19: when the response starts with a block (whose values hold no "---")
\* and the body holds "---" rules, the metadata is what is between the first
\* two delimiters and the content is all that follows the second one,
\* trimmed, with the rules of the body and the text around them.
C19_OnlyFirstBlockIsMetadata ==
    (/\ Parsed
     /\ pIn.form = "block"
     /\ includes(pIn.body, Dash3)
     /\ DashFree(pIn.tv) /\ DashFree(pIn.av) /\ DashFree(pIn.sv)) =>
        /\ pOut.content = trim(pIn.body)
        /\ includes(pOut.content, Dash3)
        /\ pOut.title = Hello
        /\ pOut.author = Bar
        /\ pOut.siteName = Baz

\* a body of a rule followed by a line of text, after a block
C19_Witness ==
    /\ Parsed
    /\ pIn.form = "block"
    /\ pIn.body = JoinLines(<<Dash3, BodyTextHere>>)
    /\ pOut.content = pIn.body
    /\ pOut.title = Hello

\* C20: the cleanup removes one matching pair of surrounding quotes and
\* nothing else: a value with a quote at one end only, or with different
\* quotes at its two ends, is returned unchanged (stated of the author value).
C20_OnlyMatchingPairStripped ==
    (/\ Parsed
     /\ pIn.form = "block"
     /\ pIn.av # Absent /\ pIn.av # <<>>
     /\ DashFree(pIn.tv) /\ DashFree(pIn.av) /\ DashFree(pIn.sv)) =>
        pOut.author = IF PairQuoted(pIn.av) THEN SubSeq(pIn.av, 2, Len(pIn.av) - 1)
                      ELSE pIn.av

-----------------------------------------------------------------------------
(* Claims about the text the parsing code is given *)

\* the texts of the parts, in order, one after the other
PartsInOrder(parts) == Flatten([i \in 1..Len(parts) |-> parts[i].text])

\* the raw text as the claim describes it
ClaimedRawText(resp) == IF resp.text # <<>> THEN resp.text ELSE PartsInOrder(resp.parts)

\* C17: the text parsed is the primary text field when it is non-empty, else
\* the in-order concatenation of the text of the first candidate's parts; when
\* that is empty too the fetch fails with the "No content received" error and
\* no record is built.
C17_RawTextFromTextOrParts ==
    (Settled /\ ~last.threw) =>
        LET raw == ClaimedRawText(last.resp)
        IN  /\ raw = <<>> =>
                  /\ last.outcome = "rejected"
                  /\ last.record = NULL
                  /\ last.error = NoContentError
            /\ raw # <<>> =>
                  /\ last.outcome = "resolved"
                  /\ last.record = ParseArticle(raw, inv[last.n].url, last.resp.chunks)

\* a response without primary text whose three parts (the second without
\* text) were joined and parsed
C17_Witness ==
    /\ Settled
    /\ last.outcome = "resolved"
    /\ last.resp.text = <<>>
    /\ Len(last.resp.parts) = 3
    /\ last.record.content = HeadingText
    /\ last.record.title = MyHeading

-----------------------------------------------------------------------------
(* Claims about the reading history *)

\* no two entries of the history have the same url
UniqueUrls(hist) == \A i, j \in 1..Len(hist) : hist[i].url = hist[j].url => i = j

\* C16 as stated: after any sequence of saveToHistory and deleteHistoryItem
\* the history has at most 20 entries, no url twice, and the article saved
\* most recently is its first entry.
C16_HistoryBoundedUniqueMruFirst ==
    /\ Len(history) <= 20
    /\ UniqueUrls(history)
    /\ last.record # NULL => (history # <<>> /\ history[1].url = last.record.url)

\* C16 as amended: at most 20 entries, no url twice, and the article saved
\* most recently is the first entry as long as its entry has not been deleted.
C16_HistoryBoundedUniqueMruFirstIfKept ==
    /\ Len(history) <= 20
    /\ UniqueUrls(history)
    /\ (last.record # NULL /\ \E i \in 1..Len(history) : history[i].url = last.record.url)
          => history[1].url = last.record.url

\* a full history after the save of an article it did not hold
C16_Witness ==
    /\ Len(history) = 20
    /\ last.record # NULL
    /\ last.record.url = HistoryUrl(HistoryLimit + 1)
    /\ history[1].url = last.record.url
    /\ history[20].url = HistoryUrl(HistoryLimit - 1)

-----------------------------------------------------------------------------
(* Claims about the replacement of the block title and about the sources *)

\* the condition under which the claim has a block title replaced
ClaimedReplaced(t) ==
    \/ t = <<>>
    \/ Len(t) < 5
    \/ toLowerCase(t) = ArticleViewPlaceholder

\* what the fallback chain gives for the bodies of the title inputs
ClaimedFallback(i) ==
    IF i.body = HeadingText THEN MyHeading
    ELSE IF i.url = UrlNoHost THEN ExtractedArticle
    ELSE ReportFrom \o ExampleCom

\* C21: a block title is replaced by the fallback chain if and only if it is
\* empty, shorter than 5 characters or equal, ignoring case, to "article
\* view"; any other title is kept (markup removed), also one that contains
\* the placeholder.
C21_TitleReplacedIff ==
    (/\ Parsed
     /\ pIn.form = "block"
     /\ pIn.body \in {BodyTextHere, HeadingText}
     /\ WellFormed(pIn)) =>
        pOut.title = IF ClaimedReplaced(Unquote(pIn.tv))
                     THEN ClaimedFallback(pIn)
                     ELSE WithoutMarkup(Unquote(pIn.tv))

\* C22: sources is the image, in order, of the grounding entries with a web
\* payload: entries without one are dropped, duplicates are kept, and there
\* are no sources when there is no grounding metadata.
C22_SourcesInOrder ==
    (Settled /\ last.outcome = "resolved") =>
        LET chunks  == last.resp.chunks
            sources == last.record.sources
            webs    == {i \in 1..Len(chunks) : chunks[i].hasWeb}
        IN  /\ Len(sources) = Cardinality(webs)
            /\ \E f \in [1..Len(sources) -> webs] :
                  /\ \A i, j \in 1..Len(sources) : i < j => f[i] < f[j]
                  /\ \A i \in 1..Len(sources) :
                        /\ sources[i].title = chunks[f[i]].title
                        /\ sources[i].uri = chunks[f[i]].uri

\* four grounding entries, one without web payload, the first and the last
\* the same: three sources, the first and the last the same
C22_Witness ==
    /\ Settled
    /\ last.outcome = "resolved"
    /\ Len(last.resp.chunks) = 4
    /\ Len(last.record.sources) = 3
    /\ last.record.sources[1] = last.record.sources[3]
    /\ last.record.sources[2].title = ""

-----------------------------------------------------------------------------
(* Claims about the prompt of askQuestionAboutArticle *)

\* C23: the article text embedded in the prompt is the first min(length,
\* 30000) characters of the content: never more than 30000 characters, and
\* the whole content when that is shorter.
C23_PromptHoldsFirst30000 ==
    pOut # NULL =>
        LET n == Len(pIn.content)
            k == IF n < 30000 THEN n ELSE 30000
        IN  /\ Len(pOut.context) = k
            /\ Len(pOut.context) <= 30000
            /\ \A i \in 1..k : pOut.context[i] = pIn.content[i]
            /\ n <= 30000 => pOut.context = pIn.content
            /\ pOut.question = pIn.question

\* a content of 30001 characters was cut to its first 30000
C23_Witness ==
    /\ pOut # NULL
    /\ Len(pIn.content) = 30001
    /\ Len(pOut.context) = 30000
    /\ pOut.context[30000] = pIn.content[30000]

-----------------------------------------------------------------------------
(* Claims about App under overlapping fetches *)

\* invocation n settles with a record in this step
Resolves(n) == inv[n].pc = "awaiting" /\ inv'[n].pc = "resolved"

\* C25: no history update is lost when fetches overlap each other or a
\* deletion: the step in which a fetch resolves leaves an entry for its url,
\* keeps every other entry the history holds, and brings back no entry the
\* history does not hold.
C25_NoLostHistoryUpdate ==
    [][\A n \in 1..MaxInv :
          Resolves(n) =>
              /\ \E j \in 1..Len(history') : history'[j].url = inv[n].url
              /\ \A i \in 1..Len(history) :
                    history[i].url # inv[n].url =>
                        \E j \in 1..Len(history') : history'[j] = history[i]
              /\ \A j \in 1..Len(history') :
                    \/ history'[j].url = inv[n].url
                    \/ \E i \in 1..Len(history) : history[i] = history'[j]]_vars

\* C26: while appState is IDLE with no article, only a new handleRead (which
\* sets LOADING) changes appState or articleData: a fetch started before
\* Back does not move the app to READING or ERROR when it settles.
C26_IdleUntilNewRead ==
    [][(appState = "IDLE" /\ articleData = NULL /\ appState' # "LOADING") =>
          (appState' = "IDLE" /\ articleData' = NULL)]_vars

\* C27: appState = READING implies an article, appState = ERROR implies a
\* non-empty error message.
C27_ReadingHasArticleErrorHasMessage ==
    /\ appState = "READING" => articleData # NULL
    /\ appState = "ERROR" => errorMsg # ""

\* the second of two overlapping fetches failed after the first had resolved
\* and the first resolved after a failure
C27_Witness ==
    /\ appState = "ERROR"
    /\ errorMsg = NoContentError
    /\ articleData # NULL
    /\ \E n \in 1..MaxInv : inv[n].pc = "resolved"

-----------------------------------------------------------------------------
(* C28 *)

\* C28: every busy flag of ArticleView is cleared once the operation it
\* guards has settled: isSaving when saveArticleToSheet resolved, rejected or
\* rejected with CANCELLED_BY_USER, isExporting when the export resolved or
\* rejected, isAsking when the answer of the mounted view resolved or rejected
C28_BusyFlagsClearedOnceSettled ==
    /\ view.save \in SaveOutcomes => ~view.isSaving
    /\ view.export \in {"resolved", "rejected"} => ~view.isExporting
    /\ (ask.live /\ ask.pc \in {"resolved", "rejected"}) => ~isAsking

\* a save cancelled by the user, a failed export and an answer, all settled
\* with their flags down
C28_Witness ==
    /\ view.save = "cancelled"
    /\ view.export = "rejected"
    /\ ask.live /\ ask.pc = "resolved"
    /\ ~view.isSaving /\ ~view.isExporting /\ ~isAsking

-----------------------------------------------------------------------------
(* C24 *)

\* C24: a call of saveArticleToSheet issues its append request only after a
\* token response without an error and at most once; it resolves only after
\* the append succeeded; a token error rejects it without any append, and a
\* failed append rejects it
C24_AppendOnlyAfterToken ==
    /\ sheet.appends <= 1
    /\ sheet.appends = 1 => sheet.token = "granted"
    /\ sheet.pc = "resolved" => sheet.append = "ok" /\ sheet.appends = 1
    /\ sheet.token = "error" => sheet.pc = "rejected" /\ sheet.appends = 0
    /\ sheet.append = "failed" => sheet.pc = "rejected"

\* a second call that was granted a token and resolved after its one append
C24_Witness ==
    /\ sheet.calls = 2
    /\ sheet.pc = "resolved"
    /\ sheet.token = "granted"
    /\ sheet.appends = 1
    /\ view.saveSuccess

-----------------------------------------------------------------------------
(* C30 *)

\* C30: under fair scheduling every call of saveArticleToSheet eventually
\* resolves or rejects, so that isSaving is eventually cleared
C30_SaveEventuallySettles ==
    (view.isSaving /\ sheet.pc \notin {"idle", "resolved", "rejected"})
        ~> (sheet.pc \in {"resolved", "rejected"} /\ ~view.isSaving)

-----------------------------------------------------------------------------
(* C29 *)

\* C29: once every restore timer has fired, document.title is again the
\* title the page had before the first export click, whatever the sequence of
\* clicks was
C29_TitleRestoredAfterTimers ==
    doc.timers = <<>> => doc.title = DocTitle

=============================================================================
